---- MODULE Spec2Model ----
(***************************************************************************)
(* Model of src/lm1los2.js: the two versions of SimulatedReturnsTool.      *)
(*                                                                         *)
(* The first version (lines 3-135) simulates 12 months on a button click,  *)
(* drawing Math.random() inside the loop.  The second version (lines       *)
(* 161-553) keeps a sequence of normal draws in a ref, validates the three *)
(* inputs, recomputes on a 100 ms debounce timer after an edit and         *)
(* replaces the sequence when seedVersion changes.                         *)
(*                                                                         *)
(* Numbers.  JavaScript numbers are IEEE doubles.  They are modelled as    *)
(* fixed-point integers in units of 1/Scale, with the three special values *)
(* NaN, +Infinity and -Infinity and with overflow to +-Infinity beyond     *)
(* MaxFinite.  Every arithmetic operator follows the IEEE rules for the    *)
(* special values (Infinity * 0 = NaN, x / 0 = +-Infinity, 0 / 0 = NaN,    *)
(* sqrt of a negative = NaN) and truncates where a double would round.     *)
(* drift, volatility and months are held as the integers typed into the    *)
(* inputs (fractional input values are outside the model).                 *)
(*                                                                         *)
(* React.  A state setter re-renders the component; the effects whose      *)
(* dependencies changed run in the same commit, before any other event is  *)
(* handled, so each handler together with its re-render and effects is one *)
(* atomic action.  A closure (the timer callback) sees the values of the   *)
(* render that created it; a ref (randomSequence) is read when used.       *)
(* Setting a state variable to the value it already has re-renders nothing *)
(* and runs no effect.  showReturnTable (line 169) only shows or hides a   *)
(* table and is read by no handler; it is left out.                        *)
(***************************************************************************)
EXTENDS Integers, Sequences, FiniteSets, TLC

VARIABLES
    variant,          \* which version of the component is mounted: 1 or 2
    pc,               \* "init": constructed, effects not yet run; "ready"
    drift,            \* useState(3)                      lines 4, 162
    volatility,       \* useState(17)                     lines 5, 163
    months,           \* useState(12)                     line 164
    chartData,        \* useState([])                     line 166
    statsData,        \* useState([])                     line 167
    returnData,       \* useState([])                     lines 7, 168
    randomSequence,   \* useRef([]).current               line 172
    seedVersion,      \* useState(0)                      line 173
    timers,           \* the pending setTimeout callbacks, each the closure
                      \* (drift, volatility, months) of the render that set it
    cleanup,          \* the timer the debounce effect's cleanup will clear
    cumulativeData,   \* useState([])                     line 6
    stats,            \* useState({})                     line 8
    chartKey,         \* useState(0)                      line 9
    returns,          \* local `returns` of the latest simulation loop
    cumulative,       \* local `cumulative` of the latest simulation loop
    ranWith,          \* the drift, volatility and months that loop read
    lengthAtCall      \* randomSequence.current.length when that call began

vars == <<variant, pc, drift, volatility, months, chartData, statsData,
          returnData, randomSequence, seedVersion, timers, cleanup,
          cumulativeData,
          stats, chartKey, returns, cumulative, ranWith,
          lengthAtCall>>

(***************************************************************************)
(* Bounds of the model.                                                    *)
(***************************************************************************)
\* fixed-point resolution: one unit is 1/Scale
Scale == 10000
\* doubles of magnitude MaxFinite or more overflow to +-Infinity
MaxFinite == 26000
\* number of distinct streams of Math.random() values
NumSeeds == 3
\* number of distinct values of `new Date()` (in months)
NumDates == 2
\* cap on seedVersion (regenerate clicks)
MaxSeedVersion == 1
\* cap on chartKey (Recalculate clicks of the first version)
MaxChartKey == 2

(***************************************************************************)
(* IEEE arithmetic on fixed-point numbers.                                 *)
(***************************************************************************)
Big == MaxFinite * Scale
PosInf == Big
NegInf == -Big
NaN == Big + 1
\* JavaScript null (the first entry of returnData in the second version)
Null == Big + 2
MaxSafe == 2147483647 \div Scale

Num(n) == n * Scale
One == Num(1)
IsFinite(a) == a > NegInf /\ a < PosInf
Sign(a) == IF a < 0 THEN -1 ELSE 1
Abs(a) == IF a < 0 THEN -a ELSE a
\* a magnitude and a sign, overflowing to +-Infinity
Round(s, mag) == IF mag >= Big THEN s * Big ELSE s * mag

Neg(a) == IF a = NaN THEN NaN ELSE -a

Add(a, b) ==
    IF a = NaN \/ b = NaN THEN NaN
    ELSE IF ~IsFinite(a) THEN (IF ~IsFinite(b) /\ b # a THEN NaN ELSE a)
    ELSE IF ~IsFinite(b) THEN b
    ELSE Round(Sign(a + b), Abs(a + b))

Sub(a, b) == Add(a, Neg(b))

Mul(a, b) ==
    IF a = NaN \/ b = NaN THEN NaN
    ELSE IF ~IsFinite(a) \/ ~IsFinite(b)
         THEN (IF a = 0 \/ b = 0 THEN NaN ELSE Sign(a) * Sign(b) * Big)
    ELSE LET s == Sign(a) * Sign(b)
             ah == Abs(a) \div Scale
             al == Abs(a) % Scale
             bh == Abs(b) \div Scale
             bl == Abs(b) % Scale
         IN  IF bh > 0 /\ ah > MaxFinite \div bh
             THEN s * Big
             ELSE Round(s, ah * bh * Scale + ah * bl + al * bh
                           + (al * bl) \div Scale)

\* a / n for a number n written as an integer (12, 100, months)
DivInt(a, n) ==
    IF a = NaN THEN NaN
    ELSE IF n = 0 THEN (IF a = 0 THEN NaN ELSE Sign(a) * Big)
    ELSE IF ~IsFinite(a) THEN Sign(a) * Sign(n) * Big
    ELSE Sign(a) * Sign(n) * (Abs(a) \div Abs(n))

\* a / b for fixed-point b
Div(a, b) ==
    IF a = NaN \/ b = NaN THEN NaN
    ELSE IF ~IsFinite(a) THEN (IF ~IsFinite(b) THEN NaN ELSE Sign(a) * Sign(b) * Big)
    ELSE IF ~IsFinite(b) THEN 0
    ELSE IF b = 0 THEN (IF a = 0 THEN NaN ELSE Sign(a) * Big)
    ELSE LET s == Sign(a) * Sign(b)
             q == Abs(a) \div Abs(b)
             r == Abs(a) % Abs(b)
             f == IF r <= MaxSafe THEN (r * Scale) \div Abs(b)
                  ELSE r \div (Abs(b) \div Scale)
         IN  IF q >= MaxFinite THEN s * Big ELSE Round(s, q * Scale + f)

\* the largest y in lo..hi-1 with y * y <= x, given lo * lo <= x < hi * hi
RECURSIVE ISqrtB(_, _, _)
ISqrtB(x, lo, hi) ==
    IF hi - lo <= 1 THEN lo
    ELSE LET mid == (lo + hi) \div 2
         IN  IF mid * mid <= x THEN ISqrtB(x, mid, hi) ELSE ISqrtB(x, lo, mid)

ISqrt(x) == ISqrtB(x, 0, 46341)

\* Math.sqrt
Sqrt(a) ==
    IF a = NaN \/ a < 0 THEN NaN
    ELSE IF a = PosInf THEN PosInf
    ELSE IF a <= MaxSafe THEN ISqrt(a * Scale)
    ELSE ISqrt(a) * ISqrt(Scale)

\* Math.pow(y, k) for an integer k >= 0
RECURSIVE PowInt(_, _)
PowInt(y, k) ==
    IF k = 0 THEN One
    ELSE IF k % 2 = 0
         THEN LET h == PowInt(y, k \div 2) IN Mul(h, h)
         ELSE Mul(y, PowInt(y, k - 1))

\* the largest y in lo..hi-1 with y^n <= x, given lo^n <= x < hi^n
RECURSIVE RootB(_, _, _, _)
RootB(x, n, lo, hi) ==
    IF hi - lo <= 1 THEN lo
    ELSE LET mid == (lo + hi) \div 2
         IN  IF PowInt(mid, n) <= x THEN RootB(x, n, mid, hi)
             ELSE RootB(x, n, lo, mid)

\* Math.pow(x, 1 / n) for an integer n >= 0; 1 / 0 is Infinity
PowInv(x, n) ==
    IF x = NaN THEN NaN
    ELSE IF n = 0
         THEN (IF Abs(x) > One THEN PosInf ELSE IF Abs(x) = One THEN NaN ELSE 0)
    ELSE IF n = 1 THEN x
    ELSE IF x = NegInf THEN PosInf
    ELSE IF x < 0 THEN NaN
    ELSE IF x = PosInf THEN PosInf
    ELSE RootB(x, n, 0, (IF x > One THEN x ELSE One) + 1)

\* [a, b, c].reduce((a, b) => a + b, 0)
RECURSIVE SumTo(_, _)
SumTo(s, k) == IF k = 0 THEN 0 ELSE Add(SumTo(s, k - 1), s[k])
Sum(s) == SumTo(s, Len(s))

(***************************************************************************)
(* Program constants.                                                      *)
(***************************************************************************)
\* `const months = 12` of the first version
FixedMonths == 12
\* the base value `cumulative = [100]`
BaseValue == 100
MaxDrift == 50
MaxVolatility == 100
MinMonths == 1
MaxMonths == 120
\* generateRandomSequence(120); Math.max(120, months)
SequenceLength == 120

(***************************************************************************)
(* Inputs.  The values typed into the three number inputs (an emptied      *)
(* field gives 0, or 1 for months), the streams of Math.random() values    *)
(* and the dates `new Date()` returns.                                     *)
(***************************************************************************)
DriftInputs == {-1, 0, 3, MaxDrift + 1}
VolatilityInputs == {-1, 0, 17, MaxVolatility + 1}
MonthsInputs == {0, 1, 12, MaxMonths + 1}
Seeds == 0 .. NumSeeds - 1
Dates == 0 .. NumDates - 1

(***************************************************************************)
(* Math.random().  Five representative values of [0, 1), named 1..5:       *)
(*    1: 0.1353   2: 0.5   3: 0.6065   4: 0.8825   5: 0                    *)
(* Random(seed, j) is the j-th value (j = 0, 1, ...) of stream `seed`.     *)
(* The streams with an even seed never return 0; those with an odd seed    *)
(* do.                                                                     *)
(***************************************************************************)
Random(seed, j) ==
    LET period == IF seed % 2 = 1 THEN 5 ELSE 4
    IN  ((j + seed \div 2) % period) + 1

\* Math.sqrt(-2 * Math.log(rand)); Math.log(0) is -Infinity
SqrtNeg2Log(u) ==
    CASE u = 1 -> Num(2)
      [] u = 2 -> (11774 * Scale) \div 10000
      [] u = 3 -> One
      [] u = 4 -> Scale \div 2
      [] u = 5 -> Sqrt(Mul(Num(-2), NegInf))

\* Math.cos(2 * Math.PI * rand)
Cos2Pi(u) ==
    CASE u = 1 -> (6590 * Scale) \div 10000
      [] u = 2 -> -One
      [] u = 3 -> -((7859 * Scale) \div 10000)
      [] u = 4 -> (7400 * Scale) \div 10000
      [] u = 5 -> One

Max(a, b) == IF a > b THEN a ELSE b

\* generateRandomSequence(length), lines 187-195, drawing from stream `seed`
generateRandomSequence(length, seed) ==
    [i \in 1 .. length |->
        Mul(SqrtNeg2Log(Random(seed, 2 * (i - 1))),
            Cos2Pi(Random(seed, 2 * (i - 1) + 1)))]

\* the normal draws of one run of the first version (lines 17-18): the same
\* Math.random() value feeds the logarithm and the cosine
inlineNormals(seed) ==
    [i \in 1 .. FixedMonths |->
        Mul(SqrtNeg2Log(Random(seed, i - 1)), Cos2Pi(Random(seed, i - 1)))]

(***************************************************************************)
(* validateInputs, lines 176-182.                                          *)
(***************************************************************************)
DriftError == "Drift must be between 0% and 50%"
VolatilityError == "Volatility must be between 0% and 100%"
MonthsError == "Months must be between 1 and 120"

\* the ranges taken as exclusive of their ends
validateInputs_Exclusive(d, v, m) ==
    (IF d <= 0 \/ d >= MaxDrift THEN <<DriftError>> ELSE << >>)
    \o (IF v <= 0 \/ v >= MaxVolatility THEN <<VolatilityError>> ELSE << >>)
    \o (IF m <= MinMonths \/ m >= MaxMonths THEN <<MonthsError>> ELSE << >>)

validateInputs(d, v, m) ==
    (IF d < 0 \/ d > MaxDrift THEN <<DriftError>> ELSE << >>)
    \o (IF v < 0 \/ v > MaxVolatility THEN <<VolatilityError>> ELSE << >>)
    \o (IF m < MinMonths \/ m > MaxMonths THEN <<MonthsError>> ELSE << >>)

\* const inputErrors = validateInputs(), line 184: the current render's
inputErrors == validateInputs(drift, volatility, months)

(***************************************************************************)
(* The simulation loop, lines 16-22 and 209-215.                           *)
(***************************************************************************)
\* an array element; reading past the end gives undefined, NaN in arithmetic
At(s, i) == IF i >= 1 /\ i <= Len(s) THEN s[i] ELSE NaN

\* (drift / 12) / 100 + (volatility / 100) * norm / Math.sqrt(12)
monthlyReturn(d, v, norm) ==
    Add(DivInt(DivInt(Num(d), 12), 100),
        Div(Mul(DivInt(Num(v), 100), norm), Sqrt(Num(12))))

\* the loop stopping one month early
returnsLoop_OneShort(d, v, m, samples) ==
    [i \in 1 .. m - 1 |-> monthlyReturn(d, v, At(samples, i))]

\* `returns` after the loop over i < m, reading samples[i]
returnsLoop(d, v, m, samples) ==
    [i \in 1 .. m |-> monthlyReturn(d, v, At(samples, i))]

\* the push without the `1 +`
RECURSIVE cumulativeLoop_NoOnePlus(_, _)
cumulativeLoop_NoOnePlus(rets, k) ==
    IF k = 0 THEN <<Num(BaseValue)>>
    ELSE LET c == cumulativeLoop_NoOnePlus(rets, k - 1)
         IN  Append(c, Mul(c[k], rets[k]))

\* `cumulative` after the loop: [100] and one push per return
RECURSIVE cumulativeLoop(_, _)
cumulativeLoop(rets, k) ==
    IF k = 0 THEN <<Num(BaseValue)>>
    ELSE LET c == cumulativeLoop(rets, k - 1)
         IN  Append(c, Mul(c[k], Add(One, rets[k])))

(***************************************************************************)
(* The statistics, lines 24-27 and 230-235.                                *)
(***************************************************************************)
arithMean(rets, m) == DivInt(Sum(rets), m)
geomMean(cum, m) == Sub(PowInv(DivInt(At(cum, m + 1), 100), m), One)
volatilityAnnual(rets, m) ==
    LET mean == arithMean(rets, m)
        sq == [i \in 1 .. Len(rets) |-> PowInt(Sub(rets[i], mean), 2)]
    IN  Mul(Sqrt(DivInt(Sum(sq), m)), Sqrt(Num(12)))
holdingPeriod(cum, m) == Sub(DivInt(At(cum, m + 1), 100), One)
arithMeanAnnual(rets, m) == Mul(arithMean(rets, m), Num(12))
geomMeanAnnual(cum, m) == Sub(PowInt(Add(One, geomMean(cum, m)), 12), One)

Percent(x) == Mul(x, Num(100))

\* statsArray, lines 237-262
statsArray(rets, cum, m) ==
    << [name |-> "Arithmetic Mean (Annual)",
        value |-> Percent(arithMeanAnnual(rets, m)),
        shortName |-> "Arith. Mean (Ann.)", isPercentage |-> TRUE],
       [name |-> "Geometric Mean (Annual)",
        value |-> Percent(geomMeanAnnual(cum, m)),
        shortName |-> "Geom. Mean (Ann.)", isPercentage |-> TRUE],
       [name |-> "Volatility (Annual)",
        value |-> Percent(volatilityAnnual(rets, m)),
        shortName |-> "Volatility (Ann.)", isPercentage |-> TRUE],
       [name |-> "Holding Period Return",
        value |-> Percent(holdingPeriod(cum, m)),
        shortName |-> "Hold. Period Return", isPercentage |-> TRUE] >>

\* chartDataPoints, lines 218-227.  monthLabel is the month and year of
\* `date` moved on by `index` months: the pair of the two
chartDataPoints(rets, cum, date) ==
    [k \in 1 .. Len(cum) |->
        [month |-> k - 1,
         monthLabel |-> <<date, k - 1>>,
         portfolioValue |-> cum[k],
         monthlyReturn |-> IF k = 1 THEN Null ELSE Percent(rets[k - 1])]]

\* [null, ...returns.map(r => r * 100)], line 266
returnRow(first, rets) ==
    <<first>> \o [i \in 1 .. Len(rets) |-> Percent(rets[i])]

\* the stats object of the first version, lines 31-38
statsObject(rets, cum, m) ==
    [arithMean |-> arithMean(rets, m),
     geomMean |-> geomMean(cum, m),
     arithMeanAnnual |-> arithMeanAnnual(rets, m),
     geomMeanAnnual |-> geomMeanAnnual(cum, m),
     volatilityAnnual |-> volatilityAnnual(rets, m),
     holdingPeriod |-> holdingPeriod(cum, m)]

(***************************************************************************)
(* calculateReturns, lines 198-267, as called from a render whose drift,   *)
(* volatility and months are d, v and m.                                   *)
(***************************************************************************)
\* the drift, volatility and months of one render, which the functions
\* defined in that render close over
Closure(d, v, m) == [drift |-> d, volatility |-> v, months |-> m]

\* the locals of the latest simulation loop
Locals == <<returns, cumulative, ranWith, lengthAtCall>>

\* no check of the length
ensureSequence_Never(seq, m) == {seq}

\* a new sequence on every call
ensureSequence_Always(seq, m) ==
    {generateRandomSequence(Max(SequenceLength, m), seed) : seed \in Seeds}

\* the length compared with 120 and not with months
ensureSequence_Compare120(seq, m) ==
    IF Len(seq) <= SequenceLength
    THEN {generateRandomSequence(Max(SequenceLength, m), seed) : seed \in Seeds}
    ELSE {seq}

\* lines 202-204: a sequence shorter than months is replaced by a new one.
\* The set of the sequences the loop may then read: the new sequence is one
\* of those generateRandomSequence can produce
ensureSequence(seq, m) ==
    IF Len(seq) < m
    THEN {generateRandomSequence(Max(SequenceLength, m), seed) : seed \in Seeds}
    ELSE {seq}

\* the loop reading the sequence the ref held before this event
runSimulation_StaleSnapshot(d, v, m, seq, date) ==
    \E samples \in ensureSequence(seq, m) :
        LET rets == returnsLoop(d, v, m, randomSequence)
            cum == cumulativeLoop(rets, Len(rets))
        IN  /\ randomSequence' = samples
            /\ lengthAtCall' = Len(seq)
            /\ ranWith' = Closure(d, v, m)
            /\ returns' = rets
            /\ cumulative' = cum
            /\ chartData' = chartDataPoints(rets, cum, date)
            /\ statsData' = statsArray(rets, cum, m)
            /\ returnData' = returnRow(Null, rets)

\* lines 201-266: calculateReturns past its first line.  `seq` is
\* randomSequence.current when the call starts
runSimulation(d, v, m, seq, date) ==
    \E samples \in ensureSequence(seq, m) :
        LET rets == returnsLoop(d, v, m, samples)
            cum == cumulativeLoop(rets, Len(rets))
        IN  /\ randomSequence' = samples
            /\ lengthAtCall' = Len(seq)
            /\ ranWith' = Closure(d, v, m)
            /\ returns' = rets
            /\ cumulative' = cum
            /\ chartData' = chartDataPoints(rets, cum, date)
            /\ statsData' = statsArray(rets, cum, m)
            /\ returnData' = returnRow(Null, rets)

\* the early return on input errors left out
calculateReturns_NoGuard(d, v, m, seq, date) ==
    runSimulation(d, v, m, seq, date)

\* line 199 returns when the render's inputErrors is not empty
calculateReturns(d, v, m, seq, date) ==
    IF Len(validateInputs(d, v, m)) > 0
    THEN /\ randomSequence' = seq
         /\ UNCHANGED <<chartData, statsData, returnData, Locals>>
    ELSE runSimulation(d, v, m, seq, date)

(***************************************************************************)
(* The debounce effect, lines 276-281.                                     *)
(***************************************************************************)
\* the cleanup clearing nothing
clearTimeout_Nothing(pending, ids) == pending

\* clearTimeout(timeout), line 279; clearing a fired timer does nothing
clearTimeout(pending, ids) == pending \ ids

\* the effect clearing the previous timer and setting none
debounceEffect_NoTimer(pending, previous, d, v, m, seq) ==
    [timers |-> clearTimeout(pending, previous), cleanup |-> {}]

\* the timer's callback closing over the render before the edit
debounceEffect_StaleClosure(pending, previous, d, v, m, seq) ==
    LET cleared == clearTimeout(pending, previous)
        stale == Closure(drift, volatility, months)
    IN  IF Len(seq) > 0
        THEN [timers |-> cleared \cup {stale}, cleanup |-> {stale}]
        ELSE [timers |-> cleared, cleanup |-> {}]

\* the previous run's cleanup, then the effect's body
debounceEffect(pending, previous, d, v, m, seq) ==
    LET cleared == clearTimeout(pending, previous)
    IN  IF Len(seq) > 0
        THEN [timers |-> cleared \cup {Closure(d, v, m)},
              cleanup |-> {Closure(d, v, m)}]
        ELSE [timers |-> cleared, cleanup |-> {}]

(***************************************************************************)
(* The initial state: the component as constructed, before its effects.    *)
(***************************************************************************)
EmptyStats == [k \in {} |-> 0]

Init ==
    /\ variant \in {1, 2}
    /\ pc = IF variant = 2 THEN "init" ELSE "ready"
    /\ drift = 3
    /\ volatility = 17
    /\ months = 12
    /\ chartData = << >>
    /\ statsData = << >>
    /\ returnData = << >>
    /\ randomSequence = << >>
    /\ seedVersion = 0
    /\ timers = {}
    /\ cleanup = {}
    /\ cumulativeData = << >>
    /\ stats = EmptyStats
    /\ chartKey = 0
    /\ returns = << >>
    /\ cumulative = << >>
    /\ ranWith = Closure(0, 0, 0)
    /\ lengthAtCall = 0

V1Only == <<cumulativeData, stats, chartKey>>

(***************************************************************************)
(* The second version.                                                     *)
(***************************************************************************)
\* the first commit: the seed effect (lines 270-273), then the debounce
\* effect (lines 276-281)
Mount ==
    /\ variant = 2
    /\ pc = "init"
    /\ pc' = "ready"
    /\ \E seed \in Seeds, date \in Dates :
          calculateReturns(drift, volatility, months,
                           generateRandomSequence(SequenceLength, seed),
                           date)
    /\ LET e == debounceEffect(timers, cleanup, drift, volatility, months,
                               randomSequence')
       IN  timers' = e.timers /\ cleanup' = e.cleanup
    /\ UNCHANGED <<variant, drift, volatility, months, seedVersion, V1Only>>

\* an edit re-renders with the new values and re-runs the debounce effect
Edited(d, v, m) ==
    /\ drift' = d
    /\ volatility' = v
    /\ months' = m
    /\ LET e == debounceEffect(timers, cleanup, d, v, m, randomSequence)
       IN  timers' = e.timers /\ cleanup' = e.cleanup
    /\ UNCHANGED <<variant, pc, chartData, statsData, returnData,
                   randomSequence, seedVersion, Locals, V1Only>>

\* onChange of drift-input, lines 319-322
SetDrift ==
    /\ variant = 2
    /\ pc = "ready"
    /\ \E value \in DriftInputs :
          /\ value # drift
          /\ Edited(value, volatility, months)

\* onChange of volatility-input, lines 338-341
SetVolatility ==
    /\ variant = 2
    /\ pc = "ready"
    /\ \E value \in VolatilityInputs :
          /\ value # volatility
          /\ Edited(drift, value, months)

\* onChange of months-input, lines 357-360
SetMonths ==
    /\ variant = 2
    /\ pc = "ready"
    /\ \E value \in MonthsInputs :
          /\ value # months
          /\ Edited(drift, volatility, value)

\* a pending timer fires: its callback runs the calculateReturns of the
\* render that scheduled it, line 278
TimerFire ==
    /\ variant = 2
    /\ pc = "ready"
    /\ \E t \in timers :
          /\ timers' = timers \ {t}
          /\ \E date \in Dates :
                calculateReturns(t.drift, t.volatility, t.months,
                                 randomSequence, date)
    /\ UNCHANGED <<variant, pc, drift, volatility, months, seedVersion,
                   cleanup, V1Only>>

\* whether the results block, with the regenerate button, is rendered, line 383
ResultsShown == Len(chartData) > 0 /\ Len(inputErrors) = 0

\* regenerateRandomNumbers (lines 284-286): seedVersion changes, and the
\* seed effect (lines 270-273) runs in the re-render
RegenerateRandomNumbers ==
    /\ variant = 2
    /\ pc = "ready"
    /\ ResultsShown
    /\ seedVersion < MaxSeedVersion
    /\ seedVersion' = seedVersion + 1
    /\ \E seed \in Seeds, date \in Dates :
          calculateReturns(drift, volatility, months,
                           generateRandomSequence(SequenceLength, seed),
                           date)
    /\ UNCHANGED <<variant, pc, drift, volatility, months, timers, cleanup,
                   V1Only>>

(***************************************************************************)
(* The first version.                                                      *)
(***************************************************************************)
V2Only == <<months, chartData, statsData, randomSequence, seedVersion,
            timers, cleanup>>

\* onChange of the drift input, line 59
V1SetDrift ==
    /\ variant = 1
    /\ \E value \in DriftInputs :
          /\ value # drift
          /\ drift' = value
    /\ UNCHANGED <<variant, pc, volatility, returnData, Locals, V1Only,
                   V2Only>>

\* onChange of the volatility input, line 63
V1SetVolatility ==
    /\ variant = 1
    /\ \E value \in VolatilityInputs :
          /\ value # volatility
          /\ volatility' = value
    /\ UNCHANGED <<variant, pc, drift, returnData, Locals, V1Only,
                   V2Only>>

\* simulateReturns, lines 11-40: the Recalculate button
simulateReturns ==
    /\ variant = 1
    /\ chartKey < MaxChartKey
    /\ \E seed \in Seeds :
          LET rets == returnsLoop(drift, volatility, FixedMonths,
                                  inlineNormals(seed))
              cum == cumulativeLoop(rets, Len(rets))
          IN  /\ ranWith' = Closure(drift, volatility, FixedMonths)
              /\ returns' = rets
              /\ cumulative' = cum
              /\ cumulativeData' = cum
              /\ returnData' = returnRow(0, rets)
              /\ stats' = statsObject(rets, cum, FixedMonths)
    /\ chartKey' = chartKey + 1
    /\ UNCHANGED <<variant, pc, drift, volatility, lengthAtCall, V2Only>>

Next ==
    \/ Mount
    \/ SetDrift
    \/ SetVolatility
    \/ SetMonths
    \/ TimerFire
    \/ RegenerateRandomNumbers
    \/ V1SetDrift
    \/ V1SetVolatility
    \/ simulateReturns

Spec == Init /\ [][Next]_vars

(***************************************************************************)
(* Scheduling.  A timer set with setTimeout (line 278) and not cleared has *)
(* its callback run by the event loop once its 100 ms have passed: a timer *)
(* that stays pending fires.  An edit clears the pending timer and sets    *)
(* another, for other parameters, so the fairness is stated per timer and  *)
(* promises nothing to a timer that edits keep replacing.                  *)
(***************************************************************************)
\* the renders that can set a timer
Closures ==
    {Closure(d, v, m) : d \in DriftInputs, v \in VolatilityInputs,
                        m \in MonthsInputs}

\* the event loop running the callback of the pending timer set by the
\* render c: the step of TimerFire for that timer, as far as the timers and
\* the component's state go.  The callback itself (calculateReturns) always
\* runs to its end, so the step can be taken whenever the timer is pending
TimerFires(c) ==
    /\ variant = 2
    /\ pc = "ready"
    /\ c \in timers
    /\ timers' = timers \ {c}
    /\ UNCHANGED <<variant, pc, drift, volatility, months, seedVersion,
                   cleanup, V1Only>>

Fairness == \A c \in Closures : WF_timers(TimerFires(c))

FairSpec == Spec /\ Fairness

(***************************************************************************)
(* The two simulation routines on their own.  calculateReturns is called   *)
(* once from a render with any of the input values, with the ref holding a *)
(* sequence of any length or none; simulateReturns is called with any of   *)
(* the input values.                                                       *)
(***************************************************************************)
FnDrifts == {-1, 0, 3, MaxDrift, MaxDrift + 1}
FnVolatilities == {-1, 0, 17, MaxVolatility, MaxVolatility + 1}
FnMonths == {0, MinMonths, 2, 12, MaxMonths, MaxMonths + 1}
FnLengths == {1, 5, SequenceLength}

InitFn ==
    /\ variant \in {1, 2}
    /\ pc = "ready"
    /\ drift \in FnDrifts
    /\ volatility \in FnVolatilities
    /\ months \in IF variant = 2 THEN FnMonths ELSE {12}
    /\ chartData = << >>
    /\ statsData = << >>
    /\ returnData = << >>
    /\ randomSequence \in
          IF variant = 2
          THEN {<< >>} \cup {generateRandomSequence(length, seed) :
                                 length \in FnLengths, seed \in Seeds}
          ELSE {<< >>}
    /\ seedVersion = 0
    /\ timers = {}
    /\ cleanup = {}
    /\ cumulativeData = << >>
    /\ stats = EmptyStats
    /\ chartKey = 0
    /\ returns = << >>
    /\ cumulative = << >>
    /\ ranWith = Closure(0, 0, 0)
    /\ lengthAtCall = 0

CallCalculateReturns ==
    /\ variant = 2
    /\ pc = "ready"
    /\ pc' = "done"
    /\ \E date \in Dates :
          calculateReturns(drift, volatility, months, randomSequence, date)
    /\ UNCHANGED <<variant, drift, volatility, months, seedVersion, timers,
                   cleanup, V1Only>>

NextFn ==
    \/ CallCalculateReturns
    \/ simulateReturns

SpecFn == InitFn /\ [][NextFn]_vars

(***************************************************************************)
(* Properties.                                                             *)
(***************************************************************************)
\* a simulation loop has run
HasRun == cumulative # << >>

\* the ranges of the three parameters
DriftInRange(d) == d >= 0 /\ d <= 50
VolatilityInRange(v) == v >= 0 /\ v <= 100
MonthsInRange(m) == m >= 1 /\ m <= 120
InRange(c) ==
    /\ DriftInRange(c.drift)
    /\ VolatilityInRange(c.volatility)
    /\ MonthsInRange(c.months)

\* the current render's parameters
Current == Closure(drift, volatility, months)

\* this step is the firing of pending timer t
Fires(t) ==
    /\ t \in timers
    /\ timers' = timers \ {t}
    /\ UNCHANGED <<drift, volatility, months, seedVersion>>

\* C1: every simulation run produces a return series of exactly
\* horizonMonths entries and a cumulative series of exactly horizonMonths + 1
\* entries, where horizonMonths is the months the run read (12 in the first
\* version).
C1_SeriesLengths ==
    HasRun =>
        /\ Len(returns) = ranWith.months
        /\ Len(cumulative) = ranWith.months + 1
        /\ variant = 1 => ranWith.months = 12

C1_Witness ==
    /\ variant = 2
    /\ pc = "done"
    /\ ranWith.months = 120
    /\ Len(returns) = 120
    /\ Len(cumulative) = 121

\* C2: in every simulation run the cumulative series starts at 100 and
\* each further entry is the one before it times (1 + that month's return).
C2_Compounding ==
    HasRun =>
        /\ cumulative[1] = Num(100)
        /\ \A i \in 1 .. ranWith.months :
              cumulative[i + 1] = Mul(cumulative[i], Add(One, returns[i]))

C2_Witness ==
    /\ HasRun
    /\ ranWith.months = 12
    /\ IsFinite(cumulative[13])
    /\ cumulative[13] # cumulative[12]
    /\ cumulative[12] # Num(100)

\* C3: validateInputs returns exactly one message for each parameter that is
\* out of its range (drift in [0,50], volatility in [0,100], months in
\* [1,120]), the message of that parameter, and none for a parameter in
\* range.
C3_OneErrorPerViolation ==
    LET errors == validateInputs(drift, volatility, months)
        Count(msg) == Cardinality({i \in 1 .. Len(errors) : errors[i] = msg})
        Expected(bad) == IF bad THEN 1 ELSE 0
    IN  /\ Count(DriftError) = Expected(~DriftInRange(drift))
        /\ Count(VolatilityError) = Expected(~VolatilityInRange(volatility))
        /\ Count(MonthsError) = Expected(~MonthsInRange(months))
        /\ Len(errors) = Count(DriftError) + Count(VolatilityError)
                         + Count(MonthsError)
        /\ (errors = << >>) <=> InRange(Current)

C3_Witness ==
    /\ variant = 2
    /\ pc = "done"
    /\ drift = 50
    /\ volatility = 100
    /\ months = 121
    /\ inputErrors = <<MonthsError>>
    /\ chartData = << >>

\* the numbers of the stored chart data, without the date labels
ChartNumbers(data) ==
    [k \in 1 .. Len(data) |->
        <<data[k].month, data[k].portfolioValue, data[k].monthlyReturn>>]

\* C4: the second version's simulation never runs with a parameter out of
\* range (so never with months = 0); a timer callback whose parameters are
\* out of range leaves the random sequence, the chart data, the statistics
\* and the return data as they were; the initial load and a regeneration
\* happen only with all parameters in range; and no results are shown while
\* a parameter is out of range.
C4_NeverRunsOutOfRange ==
    /\ [](variant = 2 /\ HasRun => InRange(ranWith))
    /\ [](variant = 2 /\ ~InRange(Current) => ~ResultsShown)
    /\ [][variant = 2 =>
            /\ \A t \in timers :
                  Fires(t) /\ ~InRange(t) =>
                      UNCHANGED <<randomSequence, chartData, statsData,
                                  returnData>>
            /\ pc # pc' \/ seedVersion' # seedVersion => InRange(Current)]_vars

C4_Witness ==
    /\ variant = 2
    /\ months = 0
    /\ timers = {}
    /\ Len(chartData) = 13
    /\ ranWith = Closure(3, 17, 12)
    /\ ~ResultsShown

\* C5: in the second version, once the component is loaded, a step that is
\* not a regeneration (an edit of drift, volatility or months, or the firing
\* of a debounce timer) leaves the random sequence unchanged.
C5_SequenceKept ==
    [][variant = 2 /\ pc = "ready" /\ seedVersion' = seedVersion =>
            randomSequence' = randomSequence]_vars

C5_Witness ==
    /\ variant = 2
    /\ seedVersion = 0
    /\ ranWith = Closure(0, 0, 1)
    /\ months = 121
    /\ drift = 3
    /\ timers = {}
    /\ Len(randomSequence) = 120

\* C6: at most one debounced recomputation is pending, and a pending one
\* was scheduled by the render of the current drift, volatility and months:
\* a recomputation scheduled for earlier values does not outlive an edit.
C6_OnePendingTimer ==
    variant = 2 =>
        /\ Cardinality(timers) <= 1
        /\ \A t \in timers : t = Current

C6_Witness ==
    /\ variant = 2
    /\ drift = 0
    /\ volatility = 0
    /\ months = 1
    /\ timers = {Current}
    /\ ranWith = Closure(3, 17, 12)

\* C7: when a debounce timer fires with the parameters of the latest run
\* (the random sequence is the one that run left), the run reproduces the
\* stored return series, cumulative series and statistics, and leaves the
\* sequence as it is.
C7_SameInputsSameResults ==
    [][variant = 2 /\ HasRun =>
            \A t \in timers :
                Fires(t) /\ t = ranWith =>
                    /\ returns' = returns
                    /\ cumulative' = cumulative
                    /\ returnData' = returnData
                    /\ statsData' = statsData
                    /\ ChartNumbers(chartData') = ChartNumbers(chartData)
                    /\ randomSequence' = randomSequence]_vars

C7_Witness ==
    /\ variant = 2
    /\ seedVersion = 0
    /\ timers = {}
    /\ Current = Closure(3, 17, 12)
    /\ ranWith = Current
    /\ Len(chartData) = 13
    /\ \E k \in 1 .. 13 : chartData[k].portfolioValue # Num(100)

\* C8: whenever the second version's loop has run, the random sequence
\* holds at least as many samples as the months it read; a sequence that
\* was shorter when the call began has been replaced by one of length
\* max(120, months), a long enough one has kept its length; every return
\* was computed from a sample of the sequence; and no input error is
\* reported.
C8_EnoughSamples ==
    variant = 2 /\ HasRun =>
        /\ Len(randomSequence) >= ranWith.months
        /\ lengthAtCall < ranWith.months =>
              Len(randomSequence) = Max(120, ranWith.months)
        /\ lengthAtCall >= ranWith.months =>
              Len(randomSequence) = lengthAtCall
        /\ \A i \in 1 .. ranWith.months :
              /\ i <= Len(randomSequence)
              /\ returns[i] = monthlyReturn(ranWith.drift, ranWith.volatility,
                                            randomSequence[i])
        /\ pc = "done" => inputErrors = << >>

C8_Witness ==
    /\ variant = 2
    /\ pc = "done"
    /\ HasRun
    /\ lengthAtCall = 5
    /\ ranWith.months = 12
    /\ Len(randomSequence) = 120

\* the values of the four stored statistics
StatValues == {statsData[k].value : k \in 1 .. Len(statsData)}

\* C9: when the second version's loop has run with drift = 0 and
\* volatility = 0, every monthly return is 0, every cumulative value is 100,
\* and the arithmetic mean, the geometric mean, their annualized values, the
\* annualized volatility and the holding-period return are all 0.
C9_AllZero ==
    variant = 2 /\ HasRun /\ ranWith.drift = 0 /\ ranWith.volatility = 0 =>
        /\ \A i \in 1 .. Len(returns) : returns[i] = 0
        /\ \A i \in 1 .. Len(cumulative) : cumulative[i] = Num(100)
        /\ arithMean(returns, ranWith.months) = 0
        /\ geomMean(cumulative, ranWith.months) = 0
        /\ StatValues = {0}

\* C10, as claimed: whenever the second version shows results, the stored
\* cumulative series has months + 1 entries for the current months.
C10_AlwaysCurrentLength ==
    variant = 2 /\ ResultsShown => Len(chartData) = months + 1

\* C10, amended: whenever the second version shows results and no debounced
\* recomputation is pending, the stored cumulative series has months + 1
\* entries for the current months.
C10_SettledLength ==
    variant = 2 /\ ResultsShown /\ timers = {} => Len(chartData) = months + 1

C10_Witness ==
    /\ variant = 2
    /\ ResultsShown
    /\ timers = {}
    /\ months = 1
    /\ Len(chartData) = 2

\* chart, statistics and row are what lines 201-266 compute from the
\* parameters c and the sequence seq, on some date
IsSimulationOf(chart, statistics, row, c, seq) ==
    LET rets == returnsLoop(c.drift, c.volatility, c.months, seq)
        cum == cumulativeLoop(rets, Len(rets))
    IN  /\ \E date \in Dates : chart = chartDataPoints(rets, cum, date)
        /\ statistics = statsArray(rets, cum, c.months)
        /\ row = returnRow(Null, rets)

\* the stored chart data, statistics and return data are the simulation of
\* the parameters c over the sequence seq
StoredIsSimulationOf(c, seq) ==
    IsSimulationOf(chartData, statsData, returnData, c, seq)

\* the second version is loaded, its parameters are in range, and the
\* debounced recomputation for them has run
Settled ==
    /\ timers = {}
    /\ StoredIsSimulationOf(Current, randomSequence)

\* C11: in the second version, (1) whenever the parameters are in range and
\* no debounced recomputation is pending, the stored chart data, statistics
\* and return data are the simulation of the current drift, volatility and
\* months over the current random sequence; (2) a timer that fires was set
\* by the render of the current parameters, and its run, when they are in
\* range, reads them; (3) if from some point on no edit occurs, then from
\* some point on, while the parameters are in range, no recomputation is
\* pending and the stored results are those of (1).
C11_DebouncedRecomputation ==
    /\ [](variant = 2 /\ pc = "ready" /\ InRange(Current) /\ timers = {} =>
              StoredIsSimulationOf(Current, randomSequence))
    /\ [][variant = 2 =>
            \A t \in timers :
                Fires(t) =>
                    /\ t = Current
                    /\ InRange(t) => ranWith' = Current]_vars
    /\ <>[][Current' = Current]_vars =>
           <>[](variant = 2 /\ pc = "ready" /\ InRange(Current) => Settled)

C11_Witness ==
    /\ variant = 2
    /\ pc = "ready"
    /\ Current = Closure(0, 17, 1)
    /\ ranWith = Current
    /\ Settled
    /\ Len(chartData) = 2

\* the sequences the seed effect can store, line 271
Generations ==
    {generateRandomSequence(SequenceLength, seed) : seed \in Seeds}

\* C12: in the second version, (1) once loaded, the stored returns, chart
\* data, statistics and return data are those of the latest run's
\* parameters over the current random sequence, every return read from the
\* sample of its month; (2) a regeneration stores a new sequence and, in the
\* same step, the results of the current parameters over it; (3) a timer
\* that fires with parameters in range, also one left pending across a
\* regeneration, reads the sequence current at that moment and leaves it.
C12_ResultsOfCurrentSequence ==
    /\ [](variant = 2 /\ pc = "ready" =>
              /\ HasRun
              /\ randomSequence \in Generations
              /\ returns = returnsLoop(ranWith.drift, ranWith.volatility,
                                       ranWith.months, randomSequence)
              /\ StoredIsSimulationOf(ranWith, randomSequence))
    /\ [][variant = 2 /\ seedVersion' # seedVersion =>
              /\ ranWith' = Current
              /\ Current' = Current
              /\ \E new \in Generations :
                    /\ randomSequence' = new
                    /\ IsSimulationOf(chartData', statsData', returnData',
                                      Current, new)]_vars
    /\ [][variant = 2 =>
            \A t \in timers :
                Fires(t) /\ InRange(t) =>
                    /\ randomSequence' = randomSequence
                    /\ ranWith' = t
                    /\ returns' = returnsLoop(t.drift, t.volatility, t.months,
                                              randomSequence)]_vars

C12_Witness ==
    /\ variant = 2
    /\ seedVersion = 1
    /\ timers = {Current}
    /\ Current = Closure(0, 17, 12)
    /\ ranWith = Current
    /\ StoredIsSimulationOf(Current, randomSequence)
    /\ \E k \in 1 .. 13 : chartData[k].portfolioValue # Num(100)

====
